---- MODULE Spec2Model ----
(***************************************************************************)
(* The five server variants of training-copilot (src/server): a local      *)
(* HTTP proxy in front of an Ollama backend.  A server is one of the five  *)
(* variants; it accepts requests, routes them, calls the backend where the *)
(* handler does, and writes a response.  A connection carries one request *)
(* (http.server speaks HTTP/1.0 and closes the connection after it).  The  *)
(* model keeps, for every connection, the position of its handler (no      *)
(* request yet, blocked in a backend call, or closed), and for the         *)
(* transaction that completed last everything that was written to the      *)
(* client and every backend call that was issued.                          *)
(***************************************************************************)
EXTENDS Integers, Sequences, FiniteSets, TLC

VARIABLES variant, task, last, auditLog

vars == <<variant, task, last, auditLog>>

(***************************************************************************)
(* Bounds.                                                                 *)
(***************************************************************************)
MaxConns == 2

Conns == 1..MaxConns

(***************************************************************************)
(* Program constants.                                                      *)
(***************************************************************************)
HealthTimeout == 2
DefaultMaxTokens == 500
PromptPreviewLen == 100

Variants == {"fix_proxy", "proxy", "proxy2", "training_copilot", "ollama_proxy"}

\* The servers built on http.server handle one request at a time
\* (socketserver.TCPServer / HTTPServer); the aiohttp server runs one
\* coroutine per request on one event loop.
Concurrent(v) == v = "ollama_proxy"

(***************************************************************************)
(* JSON values.  A value carries its type, so that a string is never       *)
(* taken for a boolean or a number.  A string is the sequence of the parts *)
(* an f-string joins (a literal is a string of one part).                  *)
(***************************************************************************)
JStr(parts) == <<"str", parts>>
S(s) == JStr(<<s>>)
JBool(b) == <<"bool", b>>
JInt(n) == <<"int", n>>
JList(l) == <<"list", l>>
JFloat(digits) == <<"float", digits>>
JObj(o) == <<"object", o>>
JNull == <<"null", 0>>

\* dict.get(key, default)
Get(d, k, default) == IF k \in DOMAIN d THEN d[k] ELSE default

\* "needle in string", for a needle that is one of the parts
Contains(js, needle) == js[1] = "str" /\ \E i \in 1..Len(js[2]) : js[2][i] = needle

\* len() of the strings the model uses
StrLen(s) ==
  CASE s = "Hello" -> 5
    [] s = "Hi" -> 2
    [] s = "Hi there" -> 8
    [] s = "Ok" -> 2
    [] OTHER -> 0

\* len() of a JSON string
JLen(js) == IF Len(js[2]) = 0 THEN 0 ELSE StrLen(js[2][1])

(***************************************************************************)
(* Bodies: what the bytes of a request or response body are.               *)
(***************************************************************************)
Body(kind, obj) == [kind |-> kind, obj |-> obj]
EmptyBody == Body("empty", <<>>)
InvalidJson == Body("invalid", <<>>)
ArrayJson == Body("array", <<>>)
JsonBody(obj) == Body("object", obj)
HtmlBody == Body("html", <<>>)
TextBody == Body("text", <<>>)

\* json.loads succeeds
Parses(b) == b.kind \in {"object", "array"}
\* the parsed value is a dict (has .get)
IsDict(b) == b.kind = "object"

(***************************************************************************)
(* Requests of the client.                                                 *)
(***************************************************************************)
Methods == {"GET", "POST", "OPTIONS", "PUT"}
Paths == {"/", "/health", "/api/generate", "/api/models", "/bookmarklet", "/nope"}

B1 == JsonBody([model |-> S("llama2"), prompt |-> S("Hello"), stream |-> JBool(FALSE)])
B2 == JsonBody([prompt |-> S("Hi"), stream |-> JBool(TRUE)])
B3 == JsonBody([model |-> S("mistral"), prompt |-> S("Hello"), max_tokens |-> JInt(64),
                temperature |-> JFloat("0.7"), top_p |-> JFloat("0.5")])
B4 == JsonBody([model |-> S("mistral"), prompt |-> S("Hello")])

GenerateBodies == {B1, B2, B3, B4, InvalidJson, ArrayJson}

Request(m, p, cl, b) == [method |-> m, path |-> p, cl |-> cl, body |-> b]

\* cl is the Content-Length header: missing, zero or the length of the body
Requests ==
  {Request(m, p, "missing", EmptyBody) : m \in Methods, p \in Paths}
    \cup {Request("POST", "/api/generate", "zero", EmptyBody)}
    \cup {Request("POST", "/api/generate", "present", b) : b \in GenerateBodies}

(***************************************************************************)
(* The backend: what a call to it comes back with.                         *)
(***************************************************************************)
Outcome(kind, status, body) == [kind |-> kind, status |-> status, body |-> body]
Refused == Outcome("refused", 0, EmptyBody)
TimedOut == Outcome("timeout", 0, EmptyBody)
Http(status, body) == Outcome("http", status, body)

G1 == JsonBody([response |-> S("Hi there"), done |-> JBool(TRUE), eval_count |-> JInt(3)])
G2 == JsonBody([response |-> S("Ok"), done |-> JBool(TRUE)])

\* a generate call has no timeout
GenerateOutcomes ==
  {Http(200, G1), Http(200, G2), Http(200, InvalidJson),
   Http(405, TextBody), Http(500, TextBody), Http(404, TextBody), Refused}

T1 == JsonBody([models |-> JList(<<[name |-> S("llama2")], [name |-> S("mistral")]>>)])
T2 == JsonBody([models |-> JList(<<>>)])

TagsOutcomes ==
  {Http(200, T1), Http(200, T2), Http(200, InvalidJson), Http(503, TextBody),
   Refused, TimedOut}

\* the reason phrase of a status line
Reason(status) ==
  CASE status = 404 -> "Not Found"
    [] status = 405 -> "Method Not Allowed"
    [] status = 500 -> "Internal Server Error"
    [] status = 503 -> "Service Unavailable"
    [] OTHER -> "OK"

\* a call to the backend
Call(url, method, data, timeout) ==
  [url |-> url, method |-> method, data |-> data, timeout |-> timeout]
NoCall == Call("none", "none", EmptyBody, 0)

(***************************************************************************)
(* urllib: urlopen raises HTTPError (a URLError) for a status that is not  *)
(* 2xx, URLError when the connection fails, and a timeout error.           *)
(***************************************************************************)
IsHTTPError(out) == out.kind = "http" /\ out.status \notin 200..299
IsURLError(out) == IsHTTPError(out) \/ out.kind = "refused"
UrlopenRaises(out) == IsURLError(out) \/ out.kind = "timeout"

\* e.reason
ErrReason(out) ==
  CASE out.kind = "refused" -> "[Errno 111] Connection refused"
    [] out.kind = "timeout" -> "timed out"
    [] OTHER -> Reason(out.status)

\* str(e), as the parts that make it
ErrStr(out) ==
  CASE out.kind = "refused" -> <<"<urlopen error ", ErrReason(out), ">">>
    [] out.kind = "timeout" -> <<"timed out">>
    [] out.kind = "http" /\ IsHTTPError(out) ->
         <<"HTTP Error ", ToString(out.status), ": ", Reason(out.status)>>
    [] OTHER -> <<"Expecting value: line 1 column 1 (char 0)">>

\* [m.get("name", default) for m in data.get("models", [])]
RECURSIVE Names(_, _)
Names(ms, default) ==
  IF Len(ms) = 0 THEN <<>>
  ELSE <<Get(Head(ms), "name", default)>> \o Names(Tail(ms), default)

ModelNames(body) == JList(Names(Get(body.obj, "models", JList(<<>>))[2], JNull))

(***************************************************************************)
(* http.server: what a handler has written for its client.  send_response  *)
(* and send_header fill the headers buffer, end_headers ends the headers   *)
(* and flushes the buffer, wfile.write writes body bytes.                  *)
(***************************************************************************)
EmptyWire == [status |-> <<>>, headers |-> {}, ended |-> 0, body |-> <<>>]

send_response(w, code) == [w EXCEPT !.status = Append(@, code)]
send_header(w, name, value) == [w EXCEPT !.headers = @ \cup {<<name, value>>}]
end_headers(w) == [w EXCEPT !.ended = @ + 1]
wfile_write(w, b) == [w EXCEPT !.body = Append(@, b)]

ACAO == <<"Access-Control-Allow-Origin", <<"*">>>>

\* BaseHTTPRequestHandler.send_error of the standard library: an HTML page
base_send_error(w, code) ==
  wfile_write(
    end_headers(
      send_header(
        send_header(send_response(w, code), "Connection", <<"close">>),
        "Content-Type", <<"text/html;charset=utf-8">>)),
    HtmlBody)

(***************************************************************************)
(* What a handler does with a request up to its first backend call: it     *)
(* finishes (with what it wrote, or by an exception nobody catches), or it *)
(* blocks in a backend call, to go on in the named continuation.           *)
(***************************************************************************)
Done(w) == [next |-> "done", resp |-> w, raised |-> FALSE, call |-> NoCall, cont |-> "none"]
Raised(w) == [next |-> "done", resp |-> w, raised |-> TRUE, call |-> NoCall, cont |-> "none"]
Await(cont, call) ==
  [next |-> "await", resp |-> EmptyWire, raised |-> FALSE, call |-> call, cont |-> cont]

\* what a continuation ends with: the response, and the audit record written
NoRecord ==
  [attempted |-> FALSE, written |-> FALSE, model |-> JNull, prompt_length |-> 0, response_length |-> 0,
   prompt_preview |-> JNull]
\* (calls: the backend calls the rest of the handler issues after the first)
End(w) == [resp |-> w, raised |-> FALSE, record |-> NoRecord, calls |-> <<>>]

TagsCall == Call("/api/tags", "GET", EmptyBody, HealthTimeout)
TagsCallNoTimeout == Call("/api/tags", "GET", EmptyBody, 0)
GenerateCall(data) == Call("/api/generate", "POST", data, 0)

(***************************************************************************)
(* proxy.py                                                                *)
(***************************************************************************)
proxy_send_json(w, code, data) ==
  wfile_write(
    end_headers(
      send_header(
        send_header(send_response(w, code), "Content-Type", <<"application/json">>),
        "Access-Control-Allow-Origin", <<"*">>)),
    JsonBody(data))

proxy_send_error(w, code, message) ==
  wfile_write(
    end_headers(
      send_header(
        send_header(send_response(w, code), "Content-Type", <<"application/json">>),
        "Access-Control-Allow-Origin", <<"*">>)),
    JsonBody([error |-> JBool(TRUE), code |-> JInt(code), message |-> message]))

proxy_do_OPTIONS(req) ==
  Done(end_headers(
    send_header(
      send_header(
        send_header(send_response(EmptyWire, 200), "Access-Control-Allow-Origin", <<"*">>),
        "Access-Control-Allow-Methods", <<"POST", "GET", "OPTIONS">>),
      "Access-Control-Allow-Headers", <<"Content-Type">>)))

proxy_handle_root ==
  Done(wfile_write(
    end_headers(
      send_header(
        send_header(send_response(EmptyWire, 200), "Content-Type", <<"text/html">>),
        "Access-Control-Allow-Origin", <<"*">>)),
    HtmlBody))

\* handle_health up to urlopen
proxy_handle_health == Await("handle_health", TagsCall)

\* handle_health from urlopen on
proxy_handle_health_reply(req, out) ==
  IF ~UrlopenRaises(out) /\ IsDict(out.body)
  THEN End(proxy_send_json(EmptyWire, 200,
             [status |-> S("healthy"), proxy |-> S("http://localhost:3000"),
              ollama |-> S("connected"), models |-> ModelNames(out.body),
              ollama_url |-> S("http://localhost:11434")]))
  ELSE End(proxy_send_json(EmptyWire, 200,
             [status |-> S("degraded"), proxy |-> S("http://localhost:3000"),
              ollama |-> S("disconnected"), error |-> JStr(ErrStr(out)),
              tip |-> S("Run 'ollama serve' in another terminal")]))

AttrErrorText == "'list' object has no attribute 'get'"
JsonErrorText == "Expecting value: line 1 column 1 (char 0)"

\* handle_generate up to urlopen
proxy_handle_generate(req) ==
  IF req.cl \in {"missing", "zero"}
  THEN Done(proxy_send_error(EmptyWire, 400, S("Empty request body")))
  ELSE IF ~Parses(req.body)
  THEN Done(proxy_send_error(EmptyWire, 400, JStr(<<"Invalid JSON", ": ", JsonErrorText>>)))
  ELSE IF ~IsDict(req.body)
  THEN Done(proxy_send_error(EmptyWire, 500,
              JStr(<<"Internal server error: ", AttrErrorText>>)))
  ELSE Await("handle_generate", GenerateCall(req.body))
\* handle_generate with a second attempt after a failed connection: the
\* request goes to the backend once more before the error is reported
proxy_handle_generate_reply_retry(req, out) ==
  IF IsURLError(out)
  THEN [End(proxy_send_error(EmptyWire, 502,
              JStr(<<"Cannot connect to Ollama: ", ErrReason(out)>>)))
          EXCEPT !.calls = <<GenerateCall(req.body)>>]
  ELSE IF ~Parses(out.body)
  THEN End(proxy_send_error(EmptyWire, 500,
             JStr(<<"Internal server error: ", JsonErrorText>>)))
  ELSE End(proxy_send_json(EmptyWire, 200,
             [success |-> JBool(TRUE),
              response |-> Get(out.body.obj, "response", S("")),
              model |-> Get(req.body.obj, "model", S("unknown")),
              done |-> Get(out.body.obj, "done", JBool(TRUE))]))

\* handle_generate from urlopen on
proxy_handle_generate_reply(req, out) ==
  IF IsURLError(out)
  THEN End(proxy_send_error(EmptyWire, 502,
             JStr(<<"Cannot connect to Ollama: ", ErrReason(out)>>)))
  ELSE IF ~Parses(out.body)
  THEN End(proxy_send_error(EmptyWire, 500,
             JStr(<<"Internal server error: ", JsonErrorText>>)))
  ELSE End(proxy_send_json(EmptyWire, 200,
             [success |-> JBool(TRUE),
              response |-> Get(out.body.obj, "response", S("")),
              model |-> Get(req.body.obj, "model", S("unknown")),
              done |-> Get(out.body.obj, "done", JBool(TRUE))]))

proxy_do_GET(req) ==
  IF req.path = "/health" THEN proxy_handle_health
  ELSE IF req.path = "/" THEN proxy_handle_root
  ELSE IF req.path = "/api/generate"
  THEN Done(proxy_send_error(EmptyWire, 405, S("Method Not Allowed - Use POST")))
  ELSE Done(proxy_send_error(EmptyWire, 404, JStr(<<"Not Found: ", req.path>>)))

proxy_do_POST(req) ==
  IF req.path = "/api/generate" THEN proxy_handle_generate(req)
  ELSE Done(proxy_send_error(EmptyWire, 404, JStr(<<"Not Found: ", req.path>>)))

\* BaseHTTPRequestHandler.handle_one_request, for a method without a do_
\* method: self.send_error(501, ...), which is the handler's own send_error
proxy_unsupported(req) ==
  Done(proxy_send_error(EmptyWire, 501, JStr(<<"Unsupported method (", req.method, ")">>)))

(***************************************************************************)
(* fix_proxy.py                                                            *)
(***************************************************************************)
fix_send_json(w, code, data) ==
  wfile_write(
    end_headers(
      send_header(
        send_header(send_response(w, code), "Content-Type", <<"application/json">>),
        "Access-Control-Allow-Origin", <<"*">>)),
    JsonBody(data))

fix_send_error(w, code, message) ==
  wfile_write(
    end_headers(
      send_header(
        send_header(send_response(w, code), "Content-Type", <<"application/json">>),
        "Access-Control-Allow-Origin", <<"*">>)),
    JsonBody([error |-> JBool(TRUE), code |-> JInt(code), message |-> message,
              fix |-> S("Make sure you're using POST method for /api/generate")]))

fix_do_OPTIONS(req) ==
  Done(end_headers(
    send_header(
      send_header(
        send_header(send_response(EmptyWire, 200), "Access-Control-Allow-Origin", <<"*">>),
        "Access-Control-Allow-Methods", <<"POST", "OPTIONS">>),
      "Access-Control-Allow-Headers", <<"Content-Type">>)))

fix_handle_root ==
  Done(wfile_write(
    end_headers(
      send_header(
        send_header(send_response(EmptyWire, 200), "Content-Type", <<"text/html">>),
        "Access-Control-Allow-Origin", <<"*">>)),
    HtmlBody))

\* handle_health up to urlopen
fix_handle_health == Await("handle_health", TagsCall)

\* handle_health from urlopen on
fix_handle_health_reply(req, out) ==
  IF ~UrlopenRaises(out) /\ IsDict(out.body)
  THEN End(fix_send_json(EmptyWire, 200,
             [status |-> S("healthy"), ollama |-> S("connected"),
              models |-> ModelNames(out.body),
              proxy_url |-> S("http://localhost:3000"),
              note |-> S("/api/generate requires POST method")]))
  ELSE End(fix_send_json(EmptyWire, 200,
             [status |-> S("degraded"), ollama |-> S("disconnected"),
              error |-> JStr(ErrStr(out)),
              tip |-> S("Run 'ollama serve' in another terminal")]))

\* handle_generate up to urlopen: the body is forwarded as it came
fix_handle_generate(req) ==
  IF req.cl \in {"missing", "zero"}
  THEN Done(fix_send_error(EmptyWire, 400, S("Empty request body")))
  ELSE Await("handle_generate", GenerateCall(req.body))

\* handle_generate from urlopen on
fix_handle_generate_reply(req, out) ==
  IF IsHTTPError(out)
  THEN IF out.status = 405
       THEN End(fix_send_error(EmptyWire, 405,
                  JStr(<<"Ollama: ", "Method Not Allowed",
                         " - Make sure you're sending POST, not GET">>)))
       ELSE End(fix_send_error(EmptyWire, out.status,
                  JStr(<<"Ollama error: ", Reason(out.status)>>)))
  ELSE IF UrlopenRaises(out)
  THEN End(fix_send_error(EmptyWire, 500, JStr(<<"Proxy error: ">> \o ErrStr(out))))
  ELSE End(wfile_write(
         end_headers(
           send_header(
             send_header(send_response(EmptyWire, 200), "Content-Type", <<"application/json">>),
             "Access-Control-Allow-Origin", <<"*">>)),
         out.body))

fix_do_GET(req) ==
  IF req.path = "/health" THEN fix_handle_health
  ELSE IF req.path = "/" THEN fix_handle_root
  ELSE IF req.path = "/api/generate"
  THEN Done(wfile_write(
         end_headers(
           send_header(
             send_header(send_response(EmptyWire, 405), "Content-Type", <<"application/json">>),
             "Access-Control-Allow-Origin", <<"*">>)),
         JsonBody([error |-> JBool(TRUE), code |-> JInt(405),
                   message |-> S("GET method not allowed for /api/generate. Use POST.")])))
  ELSE Done(fix_send_error(EmptyWire, 404, JStr(<<"Not found: ", req.path>>)))

fix_do_POST(req) ==
  IF req.path = "/api/generate" THEN fix_handle_generate(req)
  ELSE Done(fix_send_error(EmptyWire, 404, JStr(<<"Not found: ", req.path>>)))

\* handle_one_request without a do_ method: the handler's own send_error
fix_unsupported(req) ==
  Done(fix_send_error(EmptyWire, 501, JStr(<<"Unsupported method (", req.method, ")">>)))

(***************************************************************************)
(* proxy2.py: SimpleHTTPRequestHandler, with the send_error of the         *)
(* standard library.                                                       *)
(***************************************************************************)
\* SimpleHTTPRequestHandler.do_GET in the directory of the script: the
\* directory listing for "/", and no file of the other paths' names
proxy2_do_GET(req) ==
  IF req.path = "/"
  THEN Done(wfile_write(
         end_headers(
           send_header(send_response(EmptyWire, 200), "Content-type", <<"text/html; charset=utf-8">>)),
         HtmlBody))
  ELSE Done(base_send_error(EmptyWire, 404))

proxy2_do_OPTIONS(req) ==
  Done(end_headers(
    send_header(
      send_header(
        send_header(send_response(EmptyWire, 200), "Access-Control-Allow-Origin", <<"*">>),
        "Access-Control-Allow-Methods", <<"POST", "GET", "OPTIONS">>),
      "Access-Control-Allow-Headers", <<"Content-Type">>)))

\* handle_ollama_request up to urlopen: int(None) raises inside the try
proxy2_handle_ollama_request(req) ==
  IF req.cl = "missing"
  THEN Done(base_send_error(EmptyWire, 500))
  ELSE Await("handle_ollama_request", GenerateCall(req.body))

\* handle_ollama_request from urlopen on
proxy2_handle_ollama_request_reply(req, out) ==
  IF UrlopenRaises(out)
  THEN End(base_send_error(EmptyWire, 500))
  ELSE End(wfile_write(
         end_headers(
           send_header(
             send_header(send_response(EmptyWire, 200), "Content-Type", <<"application/json">>),
             "Access-Control-Allow-Origin", <<"*">>)),
         out.body))

proxy2_do_POST(req) ==
  IF req.path = "/api/generate" THEN proxy2_handle_ollama_request(req)
  ELSE Done(base_send_error(EmptyWire, 404))

proxy2_unsupported(req) == Done(base_send_error(EmptyWire, 501))

(***************************************************************************)
(* training-copilot.py: SimpleHTTPRequestHandler, with the send_error of   *)
(* the standard library.                                                   *)
(***************************************************************************)
send_CORS_headers(w) ==
  send_header(
    send_header(
      send_header(w, "Access-Control-Allow-Origin", <<"*">>),
      "Access-Control-Allow-Methods", <<"GET", "POST", "OPTIONS">>),
    "Access-Control-Allow-Headers", <<"Content-Type">>)

\* the headers are never ended
tc_do_OPTIONS(req) == Done(send_CORS_headers(send_response(EmptyWire, 200)))

\* check_ollama_status from urlopen on: the text it returns (the check mark
\* and the cross are written by their code points)
check_ollama_status(out) ==
  IF ~UrlopenRaises(out) /\ IsDict(out.body)
  THEN JStr(<<"U+2705", " Connected (",
              ToString(Len(Get(out.body.obj, "models", JList(<<>>))[2])), " models)">>)
  ELSE JStr(<<"U+274C", " Not connected - Run 'ollama serve'">>)

\* serve_homepage from check_ollama_status on
serve_homepage_reply(req, out) ==
  End(wfile_write(
    end_headers(send_header(send_response(EmptyWire, 200), "Content-Type", <<"text/html">>)),
    HtmlBody))

\* serve_health_check from check_ollama_status on
serve_health_check_reply(req, out) ==
  End(wfile_write(
    end_headers(
      send_CORS_headers(
        send_header(send_response(EmptyWire, 200), "Content-Type", <<"application/json">>))),
    JsonBody([status |-> S("running"), server |-> S("training-copilot"),
              ollama |-> IF Contains(check_ollama_status(out), "U+2705")
                         THEN S("connected") ELSE S("disconnected"),
              timestamp |-> S("now"), port |-> JInt(3000)])))

serve_bookmarklet ==
  Done(wfile_write(
    end_headers(
      send_CORS_headers(
        send_header(send_response(EmptyWire, 200), "Content-Type", <<"application/javascript">>))),
    TextBody))

\* get_ollama_models from urlopen on
get_ollama_models_reply(req, out) ==
  End(wfile_write(
    end_headers(
      send_CORS_headers(
        send_header(send_response(EmptyWire, 200), "Content-Type", <<"application/json">>))),
    IF ~UrlopenRaises(out) /\ IsDict(out.body)
    THEN JsonBody([models |-> JList(Names(Get(out.body.obj, "models", JList(<<>>))[2], S("")))])
    ELSE JsonBody([models |-> JList(<<>>), error |-> S("Ollama not available")])))

tc_error(message) ==
  wfile_write(
    end_headers(
      send_CORS_headers(
        send_header(send_response(EmptyWire, 500), "Content-Type", <<"application/json">>))),
    JsonBody([success |-> JBool(FALSE), error |-> message]))

\* forward_to_ollama up to urlopen: int(None) raises outside the try
forward_to_ollama(req) ==
  IF req.cl = "missing"
  THEN Raised(EmptyWire)
  ELSE Await("forward_to_ollama", GenerateCall(req.body))

\* forward_to_ollama from urlopen on
forward_to_ollama_reply(req, out) ==
  IF IsURLError(out)
  THEN End(tc_error(JStr(<<"Cannot connect to Ollama: ", ErrReason(out)>>)))
  ELSE IF ~Parses(out.body) \/ ~Parses(req.body)
  THEN End(tc_error(JStr(<<"Internal error: ", JsonErrorText>>)))
  ELSE IF ~IsDict(req.body)
  THEN End(tc_error(JStr(<<"Internal error: ", AttrErrorText>>)))
  ELSE End(wfile_write(
         end_headers(
           send_CORS_headers(
             send_header(send_response(EmptyWire, 200), "Content-Type", <<"application/json">>))),
         JsonBody([success |-> JBool(TRUE),
                   response |-> Get(out.body.obj, "response", S("")),
                   model |-> Get(req.body.obj, "model", S("unknown"))])))

tc_do_GET(req) ==
  IF req.path = "/" THEN Await("serve_homepage", TagsCall)
  ELSE IF req.path = "/health" THEN Await("serve_health_check", TagsCall)
  ELSE IF req.path = "/bookmarklet" THEN serve_bookmarklet
  ELSE IF req.path = "/api/models" THEN Await("get_ollama_models", TagsCall)
  ELSE Done(end_headers(send_response(EmptyWire, 404)))

tc_do_POST(req) ==
  IF req.path = "/api/generate" THEN forward_to_ollama(req)
  ELSE Done(end_headers(send_response(EmptyWire, 404)))

tc_unsupported(req) == Done(base_send_error(EmptyWire, 501))

(***************************************************************************)
(* ollama-proxy.py: aiohttp.                                               *)
(***************************************************************************)
\* web.Response(status=..., headers=...): a whole response
web_Response(status, headers, body) ==
  [status |-> <<status>>, headers |-> headers, ended |-> 1, body |-> body]

\* web.json_response(data, status=...)
json_response(data, status) ==
  web_Response(status, {<<"Content-Type", <<"application/json">>>>}, <<JsonBody(data)>>)

\* response.headers[name] = value
set_header(w, name, value) ==
  [w EXCEPT !.headers = {h \in @ : h[1] # name} \cup {<<name, value>>}]

handle_options(req) ==
  web_Response(200,
    {<<"Access-Control-Allow-Origin", <<"*">>>>,
     <<"Access-Control-Allow-Methods", <<"GET", "POST", "OPTIONS">>>>,
     <<"Access-Control-Allow-Headers", <<"Content-Type", "Authorization">>>>,
     <<"Access-Control-Max-Age", <<"3600">>>>},
    <<>>)

\* the payload generate_completion builds
ollama_payload(data) ==
  JsonBody([model |-> Get(data, "model", S("llama2")),
            prompt |-> Get(data, "prompt", S("")),
            stream |-> JBool(FALSE),
            options |-> JObj([num_predict |-> Get(data, "max_tokens", JInt(DefaultMaxTokens)),
                              temperature |-> JFloat("0.3"),
                              top_p |-> JFloat("0.9")])])

\* generate_completion up to session.post
generate_completion(req) ==
  IF ~Parses(req.body)
  THEN Done(json_response([error |-> S("Invalid JSON"), details |-> S(JsonErrorText)], 400))
  ELSE IF ~IsDict(req.body)
  THEN Done(json_response([error |-> S("Internal server error"),
                           details |-> S(AttrErrorText)], 500))
  ELSE Await("generate_completion", GenerateCall(ollama_payload(req.body.obj)))

\* prompt[:100]
prompt_preview(prompt) ==
  IF JLen(prompt) <= PromptPreviewLen THEN prompt ELSE JStr(<<"prefix of ">> \o prompt[2])

\* log_interaction: the line is appended, or the failure is passed over
log_interaction(data, ok) == [data EXCEPT !.attempted = TRUE, !.written = ok]

\* a piece of the log file: the text of one record, or a newline
Chunk(kind, data) == [kind |-> kind, data |-> data]

\* a write that leaves the newline out
log_line_unterminated(data) == <<Chunk("json", data)>>
\* what f.write(json.dumps(data) + "\n") puts at the end of the log file:
\* the text of the record, then the newline
log_line(data) == <<Chunk("json", data), Chunk("newline", NoRecord)>>
\* generate_completion with a log_interaction that lets the failure of the
\* write escape: the handler's own except answers 500
generate_completion_reply_log_raises(req, out, logOk) ==
  IF out.kind # "http"
  THEN End(json_response([error |-> S("Internal server error"),
                          details |-> JStr(ErrStr(out))], 500))
  ELSE IF out.status # 200
  THEN End(json_response([error |-> JStr(<<"Ollama returned ", ToString(out.status)>>)], 500))
  ELSE IF ~Parses(out.body)
  THEN End(json_response([error |-> S("Invalid JSON"), details |-> S(JsonErrorText)], 400))
  ELSE LET model == Get(req.body.obj, "model", S("llama2"))
           prompt == Get(req.body.obj, "prompt", S(""))
           record == log_interaction(
                        [attempted |-> FALSE, written |-> FALSE, model |-> model,
                         prompt_length |-> JLen(prompt),
                         response_length |-> JLen(Get(out.body.obj, "response", S(""))),
                         prompt_preview |-> prompt_preview(prompt)],
                        logOk)
       IN [resp |-> IF logOk
                    THEN json_response(
                           [success |-> JBool(TRUE),
                            response |-> Get(out.body.obj, "response", S("")),
                            model |-> model,
                            tokens |-> Get(out.body.obj, "eval_count", JInt(0))], 200)
                    ELSE json_response([error |-> S("Internal server error"),
                                        details |-> S("PermissionError")], 500),
           raised |-> FALSE,
           calls |-> <<>>,
           record |-> record]

\* generate_completion from session.post on
generate_completion_reply(req, out, logOk) ==
  IF out.kind # "http"
  THEN End(json_response([error |-> S("Internal server error"),
                          details |-> JStr(ErrStr(out))], 500))
  ELSE IF out.status # 200
  THEN End(json_response([error |-> JStr(<<"Ollama returned ", ToString(out.status)>>)], 500))
  ELSE IF ~Parses(out.body)
  THEN End(json_response([error |-> S("Invalid JSON"), details |-> S(JsonErrorText)], 400))
  ELSE LET model == Get(req.body.obj, "model", S("llama2"))
           prompt == Get(req.body.obj, "prompt", S(""))
       IN [resp |-> json_response(
                      [success |-> JBool(TRUE),
                       response |-> Get(out.body.obj, "response", S("")),
                       model |-> model,
                       tokens |-> Get(out.body.obj, "eval_count", JInt(0))], 200),
           raised |-> FALSE,
           calls |-> <<>>,
           record |-> log_interaction(
                        [attempted |-> FALSE, written |-> FALSE, model |-> model,
                         prompt_length |-> JLen(prompt),
                         response_length |-> JLen(Get(out.body.obj, "response", S(""))),
                         prompt_preview |-> prompt_preview(prompt)],
                        logOk)]

\* list_models from session.get on
list_models_reply(req, out) ==
  IF out.kind # "http"
  THEN End(json_response([error |-> JStr(ErrStr(out))], 500))
  ELSE IF out.status # 200
  THEN End(json_response([error |-> S("Cannot connect to Ollama")], 503))
  ELSE IF ~IsDict(out.body)
  THEN End(json_response([error |-> S(JsonErrorText)], 500))
  ELSE End(json_response([success |-> JBool(TRUE), models |-> ModelNames(out.body)], 200))

\* health_check from session.get on
health_check_reply(req, out) ==
  IF out.kind # "http"
  THEN End(json_response([status |-> S("unhealthy"), ollama |-> S("disconnected"),
                          timestamp |-> S("now")], 503))
  ELSE End(json_response(
             [status |-> IF out.status = 200 THEN S("healthy") ELSE S("degraded"),
              ollama |-> IF out.status = 200 THEN S("connected") ELSE S("disconnected"),
              timestamp |-> S("now"), server |-> S("training-copilot-proxy")], 200))

\* init_app: the routes, in the order they are added
Route(method, path, handler) == [method |-> method, path |-> path, handler |-> handler]
Routes ==
  <<Route("POST", "/api/generate", "generate_completion"),
    Route("GET", "/api/models", "list_models"),
    Route("GET", "/health", "health_check"),
    Route("OPTIONS", "/{tail:.*}", "handle_options")>>

RouteMatchesPath(r, path) == r.path = "/{tail:.*}" \/ r.path = path

\* UrlDispatcher.resolve: the handler of the first route of that path and
\* method; 405 when only other methods have a route of that path, else 404
resolve(req) ==
  IF \E i \in 1..Len(Routes) : RouteMatchesPath(Routes[i], req.path) /\ Routes[i].method = req.method
  THEN Routes[CHOOSE i \in 1..Len(Routes) :
                /\ RouteMatchesPath(Routes[i], req.path) /\ Routes[i].method = req.method
                /\ \A j \in 1..(i - 1) :
                     ~(RouteMatchesPath(Routes[j], req.path) /\ Routes[j].method = req.method)].handler
  ELSE IF \E i \in 1..Len(Routes) : RouteMatchesPath(Routes[i], req.path)
  THEN "HTTPMethodNotAllowed"
  ELSE "HTTPNotFound"

\* the response aiohttp makes of an HTTPException a handler raised
http_exception(status) ==
  web_Response(status, {<<"Content-Type", <<"text/plain; charset=utf-8">>>>}, <<TextBody>>)

\* middleware_handler, on the response of the handler
cors_headers(w) ==
  set_header(
    set_header(
      set_header(w, "Access-Control-Allow-Origin", <<"*">>),
      "Access-Control-Allow-Methods", <<"GET", "POST", "OPTIONS">>),
    "Access-Control-Allow-Headers", <<"Content-Type">>)

\* middleware_handler up to the first backend call of the handler
middleware_handler(req) ==
  IF req.method = "OPTIONS" THEN Done(handle_options(req))
  ELSE LET h == resolve(req) IN
    CASE h = "generate_completion" ->
           LET r == generate_completion(req) IN
             IF r.next = "done" THEN Done(cors_headers(r.resp)) ELSE r
      [] h = "list_models" -> Await("list_models", TagsCallNoTimeout)
      [] h = "health_check" -> Await("health_check", TagsCall)
      [] h = "HTTPMethodNotAllowed" -> Done(http_exception(405))
      [] OTHER -> Done(http_exception(404))

\* middleware_handler from the backend call of the handler on
middleware_handler_reply(cont, req, out, logOk) ==
  LET e == CASE cont = "generate_completion" -> generate_completion_reply(req, out, logOk)
             [] cont = "list_models" -> list_models_reply(req, out)
             [] OTHER -> health_check_reply(req, out)
  IN [e EXCEPT !.resp = cors_headers(@)]

(***************************************************************************)
(* The server.                                                             *)
(***************************************************************************)
\* handle_one_request (http.server) or the application's handler (aiohttp):
\* the request up to the first backend call
Dispatch(v, req) ==
  CASE v = "proxy" ->
         (CASE req.method = "GET" -> proxy_do_GET(req)
            [] req.method = "POST" -> proxy_do_POST(req)
            [] req.method = "OPTIONS" -> proxy_do_OPTIONS(req)
            [] OTHER -> proxy_unsupported(req))
    [] v = "fix_proxy" ->
         (CASE req.method = "GET" -> fix_do_GET(req)
            [] req.method = "POST" -> fix_do_POST(req)
            [] req.method = "OPTIONS" -> fix_do_OPTIONS(req)
            [] OTHER -> fix_unsupported(req))
    [] v = "proxy2" ->
         (CASE req.method = "GET" -> proxy2_do_GET(req)
            [] req.method = "POST" -> proxy2_do_POST(req)
            [] req.method = "OPTIONS" -> proxy2_do_OPTIONS(req)
            [] OTHER -> proxy2_unsupported(req))
    [] v = "training_copilot" ->
         (CASE req.method = "GET" -> tc_do_GET(req)
            [] req.method = "POST" -> tc_do_POST(req)
            [] req.method = "OPTIONS" -> tc_do_OPTIONS(req)
            [] OTHER -> tc_unsupported(req))
    [] OTHER -> middleware_handler(req)

\* the rest of the handler, from the return of its backend call on
Continue(v, cont, req, out, logOk) ==
  CASE v = "proxy" /\ cont = "handle_health" -> proxy_handle_health_reply(req, out)
    [] v = "proxy" /\ cont = "handle_generate" -> proxy_handle_generate_reply(req, out)
    [] v = "fix_proxy" /\ cont = "handle_health" -> fix_handle_health_reply(req, out)
    [] v = "fix_proxy" /\ cont = "handle_generate" -> fix_handle_generate_reply(req, out)
    [] v = "proxy2" -> proxy2_handle_ollama_request_reply(req, out)
    [] v = "training_copilot" /\ cont = "serve_homepage" -> serve_homepage_reply(req, out)
    [] v = "training_copilot" /\ cont = "serve_health_check" -> serve_health_check_reply(req, out)
    [] v = "training_copilot" /\ cont = "get_ollama_models" -> get_ollama_models_reply(req, out)
    [] v = "training_copilot" /\ cont = "forward_to_ollama" -> forward_to_ollama_reply(req, out)
    [] OTHER -> middleware_handler_reply(cont, req, out, logOk)

\* urllib waits for the backend without a limit unless a timeout is given;
\* an aiohttp ClientSession gives up after its default total timeout
GenerateOutcomesOf(v) ==
  IF v = "ollama_proxy" THEN GenerateOutcomes \cup {TimedOut} ELSE GenerateOutcomes

NoReq == Request("none", "none", "missing", EmptyBody)
\* (seen: the length of the audit log when the request arrived)
Idle == [pc |-> "idle", req |-> NoReq, cont |-> "none", call |-> NoCall, seen |-> 0]
Closed == [pc |-> "closed", req |-> NoReq, cont |-> "none", call |-> NoCall, seen |-> 0]

\* a completed transaction: the request, the backend calls issued for it
\* and what they came back with, what was written to the client, whether
\* the handler ended by an exception, the audit record, and the length of
\* the audit log when the request arrived
Txn(c, req, calls, outs, resp, raised, record, seen) ==
  [valid |-> TRUE, conn |-> c, req |-> req, calls |-> calls, outs |-> outs,
   resp |-> resp, raised |-> raised, record |-> record, seen |-> seen]
NoTxn ==
  [valid |-> FALSE, conn |-> 0, req |-> NoReq, calls |-> <<>>, outs |-> <<>>,
   resp |-> EmptyWire, raised |-> FALSE, record |-> NoRecord, seen |-> 0]

Init ==
  /\ variant \in Variants
  /\ task = [c \in Conns |-> Idle]
  /\ last = NoTxn
  /\ auditLog = <<>>

\* a request arrives on connection c and its handler runs up to its first
\* backend call, or to its end
Start(c, req) ==
  /\ task[c].pc = "idle"
  /\ Concurrent(variant) \/ \A d \in Conns : task[d].pc # "awaiting"
  /\ LET r == Dispatch(variant, req) IN
       IF r.next = "done"
       THEN /\ last' = Txn(c, req, <<>>, <<>>, r.resp, r.raised, NoRecord, Len(auditLog))
            /\ task' = [task EXCEPT ![c] = Closed]
       ELSE /\ task' = [task EXCEPT ![c] =
                          [pc |-> "awaiting", req |-> req, cont |-> r.cont, call |-> r.call,
                           seen |-> Len(auditLog)]]
            /\ last' = last
  /\ UNCHANGED <<variant, auditLog>>

RequestGET(c) == \E req \in Requests : req.method = "GET" /\ Start(c, req)
RequestPOST(c) == \E req \in Requests : req.method = "POST" /\ Start(c, req)
RequestOPTIONS(c) == \E req \in Requests : req.method = "OPTIONS" /\ Start(c, req)
RequestOther(c) == \E req \in Requests : req.method \notin {"GET", "POST", "OPTIONS"} /\ Start(c, req)

\* the backend call of connection c returns and the handler runs to its end
Finish(c, out, logOk) ==
  /\ task[c].pc = "awaiting"
  /\ LET e == Continue(variant, task[c].cont, task[c].req, out, logOk) IN
       /\ last' = Txn(c, task[c].req, <<task[c].call>> \o e.calls, <<out>>, e.resp, e.raised,
                      e.record, task[c].seen)
       /\ auditLog' = IF e.record.written THEN auditLog \o log_line(e.record) ELSE auditLog
  /\ task' = [task EXCEPT ![c] = Closed]
  /\ UNCHANGED variant

GenerateReturns(c) ==
  /\ task[c].call.url = "/api/generate"
  /\ \E out \in GenerateOutcomesOf(variant), logOk \in BOOLEAN : Finish(c, out, logOk)

TagsReturns(c) ==
  /\ task[c].call.url = "/api/tags"
  /\ \E out \in TagsOutcomes : Finish(c, out, TRUE)

Next ==
  \E c \in Conns :
    \/ RequestGET(c)
    \/ RequestPOST(c)
    \/ RequestOPTIONS(c)
    \/ RequestOther(c)
    \/ GenerateReturns(c)
    \/ TagsReturns(c)

Spec == Init /\ [][Next]_vars

TypeOK ==
  /\ variant \in Variants
  /\ \A c \in Conns : task[c].pc \in {"idle", "awaiting", "closed"}
  /\ Len(auditLog) <= 2 * MaxConns
  /\ last.valid \in BOOLEAN

(***************************************************************************)
(* Reading a transaction.                                                  *)
(***************************************************************************)
\* the headers were ended and flushed: the client received a response
Emitted(w) == w.ended >= 1
\* exactly one status line, with that code, and the headers ended once
Responded(w, code) == w.status = <<code>> /\ w.ended = 1
\* the body is one JSON object
IsJsonObject(w) == Len(w.body) = 1 /\ w.body[1].kind = "object"
\* some string field of the JSON body contains the text
SaysText(w, text) ==
  IsJsonObject(w) /\ \E k \in DOMAIN w.body[1].obj : Contains(w.body[1].obj[k], text)

IsGenerate(req) == req.method = "POST" /\ req.path = "/api/generate"
\* a generate request whose body is a JSON object
IsValidGenerate(req) == IsGenerate(req) /\ req.cl = "present" /\ IsDict(req.body)
IsEmptyGenerate(req) == IsGenerate(req) /\ req.cl \in {"missing", "zero"}
IsInvalidGenerate(req) == IsGenerate(req) /\ req.cl = "present" /\ ~Parses(req.body)

\* the variants with a /health route (proxy2.py serves files for every GET)
ServesHealth == {"fix_proxy", "proxy", "training_copilot", "ollama_proxy"}

(***************************************************************************)
(* Claims.                                                                 *)
(***************************************************************************)
\* C1: every response a server emits, for any method, path and backend
\* outcome, carries the header Access-Control-Allow-Origin: *.
CorsOnEveryResponse ==
  (last.valid /\ Emitted(last.resp)) => ACAO \in last.resp.headers

\* C2: a POST /api/generate whose Content-Length is 0 or missing is answered
\* with 400, and no backend call is issued while it is handled.
EmptyBodyIs400 ==
  /\ \A c \in Conns : task[c].pc = "awaiting" => ~IsEmptyGenerate(task[c].req)
  /\ (last.valid /\ IsEmptyGenerate(last.req)) =>
       (Responded(last.resp, 400) /\ last.calls = <<>>)

\* C3: a GET of /api/generate is answered with 405 and a JSON error body, and
\* no backend call is issued for it.
GetGenerateIs405 ==
  /\ \A c \in Conns :
       task[c].pc = "awaiting" =>
         ~(task[c].req.method = "GET" /\ task[c].req.path = "/api/generate")
  /\ (last.valid /\ last.req.method = "GET" /\ last.req.path = "/api/generate") =>
       /\ Responded(last.resp, 405)
       /\ IsJsonObject(last.resp)
       /\ "error" \in DOMAIN last.resp.body[1].obj
       /\ last.calls = <<>>

\* C4: in the variants that serve it, GET /health is answered with 200 for
\* every outcome of the /api/tags probe.
HealthIsAlways200 ==
  (last.valid /\ variant \in ServesHealth
     /\ last.req.method = "GET" /\ last.req.path = "/health") =>
    Responded(last.resp, 200)

\* C5: when the connection to the backend fails during a POST /api/generate
\* with a valid body, the response is 502 with one JSON error body.
UnreachableIs502 ==
  (last.valid /\ IsValidGenerate(last.req) /\ Len(last.outs) = 1
     /\ last.outs[1].kind = "refused") =>
    (Responded(last.resp, 502) /\ IsJsonObject(last.resp))

\* C6: when the backend answers the generate call with 405, the response
\* keeps status 405, says that the method was not allowed, and differs in
\* its body from the response the same request gets for a backend 500.
Backend405IsKept ==
  (last.valid /\ IsGenerate(last.req) /\ Len(last.outs) = 1
     /\ last.outs[1].kind = "http" /\ last.outs[1].status = 405) =>
    /\ Responded(last.resp, 405)
    /\ SaysText(last.resp, "Method Not Allowed")
    /\ last.resp.body #
         Continue(variant, Dispatch(variant, last.req).cont, last.req,
                  Http(500, TextBody), TRUE).resp.body

\* C7: a POST /api/generate whose body is not valid JSON is answered with
\* 400 and a message containing "Invalid JSON", without any backend call.
InvalidJsonIs400 ==
  /\ \A c \in Conns : task[c].pc = "awaiting" => ~IsInvalidGenerate(task[c].req)
  /\ (last.valid /\ IsInvalidGenerate(last.req)) =>
       /\ Responded(last.resp, 400)
       /\ SaysText(last.resp, "Invalid JSON")
       /\ last.calls = <<>>

\* C8: for a POST /api/generate with a valid JSON body exactly one backend
\* call is issued, and its payload has stream = false.
OneCallNotStreaming ==
  /\ \A c \in Conns :
       (task[c].pc = "awaiting" /\ IsValidGenerate(task[c].req)) =>
         /\ IsDict(task[c].call.data)
         /\ Get(task[c].call.data.obj, "stream", JNull) = JBool(FALSE)
  /\ (last.valid /\ IsValidGenerate(last.req)) =>
       /\ Len(last.calls) = 1
       /\ IsDict(last.calls[1].data)
       /\ Get(last.calls[1].data.obj, "stream", JNull) = JBool(FALSE)

\* C9: when the backend answers 200 with response = R and eval_count = N,
\* the response is 200 with success = true, response = R, the model of the
\* caller's request and tokens = N.
SuccessShape ==
  (last.valid /\ IsValidGenerate(last.req) /\ "model" \in DOMAIN last.req.body.obj
     /\ Len(last.outs) = 1 /\ last.outs[1].kind = "http" /\ last.outs[1].status = 200
     /\ IsDict(last.outs[1].body)
     /\ {"response", "eval_count"} \subseteq DOMAIN last.outs[1].body.obj) =>
    /\ Responded(last.resp, 200)
    /\ IsJsonObject(last.resp)
    /\ Get(last.resp.body[1].obj, "success", JNull) = JBool(TRUE)
    /\ Get(last.resp.body[1].obj, "response", JNull) = last.outs[1].body.obj.response
    /\ Get(last.resp.body[1].obj, "model", JNull) = last.req.body.obj.model
    /\ Get(last.resp.body[1].obj, "tokens", JNull) = last.outs[1].body.obj.eval_count

\* C10: every error response (4xx or 5xx) on a route other than /health has
\* a JSON body with exactly the fields error = true, code = the status of
\* the response, and a string message.
ErrorShape ==
  (last.valid /\ Emitted(last.resp) /\ last.resp.status[1] >= 400
     /\ last.req.path # "/health") =>
    /\ IsJsonObject(last.resp)
    /\ DOMAIN last.resp.body[1].obj = {"error", "code", "message"}
    /\ last.resp.body[1].obj.error = JBool(TRUE)
    /\ last.resp.body[1].obj.code = JInt(last.resp.status[1])
    /\ last.resp.body[1].obj.message[1] = "str"

\* the routing table of the proxy surface
InRoutingTable(req) ==
  \/ req.method = "OPTIONS"
  \/ req.method = "GET" /\ req.path \in {"/health", "/api/models", "/api/generate", "/"}
  \/ req.method = "POST" /\ req.path = "/api/generate"

\* the value of a response header, <<>> when the header is not there
HeaderValue(w, name) ==
  IF \E h \in w.headers : h[1] = name
  THEN (CHOOSE h \in w.headers : h[1] = name)[2]
  ELSE <<>>
Lists(value, token) == \E i \in 1..Len(value) : value[i] = token

\* the variants with a /api/models route
ServesModels == {"training_copilot", "ollama_proxy"}

\* C11: a request whose method and path are not in the routing table is
\* answered with 404 and a JSON error body with the fields error, code and
\* message.
UnroutedIs404 ==
  (last.valid /\ ~InRoutingTable(last.req)) =>
    /\ Responded(last.resp, 404)
    /\ IsJsonObject(last.resp)
    /\ {"error", "code", "message"} \subseteq DOMAIN last.resp.body[1].obj

\* C12: an OPTIONS request to any path is answered with a complete 200
\* response with an empty body, Access-Control-Allow-Origin: *, allowed
\* methods listing GET, POST and OPTIONS and allowed headers including
\* Content-Type, without a backend call.
PreflightIsComplete ==
  /\ \A c \in Conns : task[c].pc = "awaiting" => task[c].req.method # "OPTIONS"
  /\ (last.valid /\ last.req.method = "OPTIONS") =>
       /\ Responded(last.resp, 200)
       /\ last.resp.body = <<>>
       /\ ACAO \in last.resp.headers
       /\ \A m \in {"GET", "POST", "OPTIONS"} :
            Lists(HeaderValue(last.resp, "Access-Control-Allow-Methods"), m)
       /\ Lists(HeaderValue(last.resp, "Access-Control-Allow-Headers"), "Content-Type")
       /\ last.calls = <<>>

\* C13: in the variants that serve it, GET /api/models is answered with 200
\* for every backend outcome: the names in backend order on success, an
\* empty list and an error string on every failure.
ModelsIsAlways200 ==
  (last.valid /\ variant \in ServesModels
     /\ last.req.method = "GET" /\ last.req.path = "/api/models") =>
    /\ Responded(last.resp, 200)
    /\ IsJsonObject(last.resp)
    /\ IF last.outs[1].kind = "http" /\ last.outs[1].status = 200 /\ IsDict(last.outs[1].body)
       THEN Get(last.resp.body[1].obj, "models", JNull) = ModelNames(last.outs[1].body)
       ELSE /\ Get(last.resp.body[1].obj, "models", JNull) = JList(<<>>)
            /\ Get(last.resp.body[1].obj, "error", JNull)[1] = "str"

\* C14: when the backend answers the generate call with a status that is
\* not 2xx and not 405, the response is an error whose status is the
\* backend's status or 502 and whose message names the backend's status or
\* reason.
BackendErrorIsPropagated ==
  (last.valid /\ IsValidGenerate(last.req) /\ Len(last.outs) = 1
     /\ IsHTTPError(last.outs[1]) /\ last.outs[1].status # 405) =>
    /\ Len(last.resp.status) = 1 /\ last.resp.ended = 1
    /\ last.resp.status[1] \in {last.outs[1].status, 502}
    /\ \/ SaysText(last.resp, ToString(last.outs[1].status))
       \/ SaysText(last.resp, Reason(last.outs[1].status))

\* C15: in the variants that serve it, the body of GET /health says healthy
\* with the backend's model names exactly when the probe came back 200 with
\* a parseable body, and else degraded, disconnected and an empty model list.
HealthBody ==
  (last.valid /\ variant \in ServesHealth
     /\ last.req.method = "GET" /\ last.req.path = "/health") =>
    /\ IsJsonObject(last.resp)
    /\ IF last.outs[1].kind = "http" /\ last.outs[1].status = 200 /\ IsDict(last.outs[1].body)
       THEN /\ Get(last.resp.body[1].obj, "status", JNull) = S("healthy")
            /\ Get(last.resp.body[1].obj, "models", JNull) = ModelNames(last.outs[1].body)
       ELSE /\ Get(last.resp.body[1].obj, "status", JNull) = S("degraded")
            /\ Get(last.resp.body[1].obj, "ollama", JNull) = S("disconnected")
            /\ Get(last.resp.body[1].obj, "models", JNull) = JList(<<>>)

\* C16: a failure to write the audit log changes nothing for the caller: the
\* generate request still ends with the 200 success response, the very one a
\* successful write gives
LogFailureKeepsOutcome ==
  (last.valid /\ last.record.attempted /\ ~last.record.written) =>
    /\ Responded(last.resp, 200)
    /\ ~last.raised
    /\ IsJsonObject(last.resp)
    /\ Get(last.resp.body[1].obj, "success", JNull) = JBool(TRUE)
    /\ last.resp = Continue(variant, "generate_completion", last.req, last.outs[1], TRUE).resp

\* a generate request succeeded at the backend and its audit line was not written
LogFailureSeen ==
  /\ last.valid /\ IsValidGenerate(last.req)
  /\ last.record.attempted /\ ~last.record.written
  /\ Responded(last.resp, 200)

\* the log file is a sequence of complete lines: the text of a record, then
\* its newline, and nothing of another record in between
CompleteLines(log) ==
  /\ Len(log) % 2 = 0
  /\ \A i \in 1..Len(log) :
       IF i % 2 = 1
       THEN log[i].kind = "json" /\ log[i].data.attempted /\ log[i].data.written
       ELSE log[i].kind = "newline"

\* C17: under every interleaving of the generate handlers, each request that
\* succeeds adds exactly one record to the audit log, a complete JSON line
\* ended by its newline, after the lines that are already there; nothing else
\* touches the log, so two simultaneous requests leave two whole lines
ConcurrentLogLines ==
  [][/\ IF last'.conn # last.conn /\ last'.record.written
        THEN /\ Responded(last'.resp, 200)
             /\ auditLog' = auditLog \o
                               <<Chunk("json", last'.record), Chunk("newline", NoRecord)>>
             /\ Len(auditLog) = last'.seen + 2 => Len(auditLog') = last'.seen + 4
        ELSE auditLog' = auditLog
     /\ CompleteLines(auditLog')]_vars

\* two generate requests were in flight together and both succeeded: the one
\* that ended last arrived when the log was empty, and the log has two lines
TwoConcurrentLinesSeen ==
  /\ variant = "ollama_proxy"
  /\ last.valid /\ IsValidGenerate(last.req) /\ last.record.written
  /\ last.seen = 0
  /\ Len(auditLog) = 4
  /\ auditLog[3].data = last.record

\* the backend call failed: no connection, no answer in time, or a status
\* outside 2xx
CallFailed(out) == out.kind # "http" \/ out.status \notin 200..299

\* C18: in every variant one inbound request issues at most one backend
\* call; when the call to /api/generate fails, no further call follows and the
\* caller gets exactly one response, an error
NoRetry ==
  /\ \A c \in Conns : task[c].pc # "awaiting" => task[c].call = NoCall
  /\ last.valid =>
       /\ Len(last.calls) <= 1
       /\ Len(last.outs) = Len(last.calls)
       /\ (/\ Len(last.calls) = 1
           /\ last.calls[1].url = "/api/generate"
           /\ CallFailed(last.outs[1]))
            => /\ Len(last.resp.status) = 1
               /\ last.resp.status[1] \in 400..599
               /\ last.resp.ended = 1
               /\ ~last.raised

\* a generate call failed and the caller has its one error response
FailedCallSeen ==
  /\ last.valid /\ IsGenerate(last.req)
  /\ Len(last.calls) = 1 /\ last.calls[1].url = "/api/generate"
  /\ CallFailed(last.outs[1])
  /\ Len(last.resp.status) = 1 /\ last.resp.status[1] \in 400..599

\* the variants built on http.server
HttpServerVariants == {"fix_proxy", "proxy", "proxy2", "training_copilot"}

\* the payload of the backend call against the body data of the caller
PassedThrough(data, payload) ==
  LET options == Get(payload, "options", JObj(<<>>))[2] IN
    /\ Get(payload, "model", JNull) = Get(data, "model", S("llama2"))
    /\ "prompt" \in DOMAIN data => Get(payload, "prompt", JNull) = data["prompt"]
    /\ "max_tokens" \notin DOMAIN payload
    /\ "max_tokens" \in DOMAIN data => Get(options, "num_predict", JNull) = data["max_tokens"]
    /\ "temperature" \in DOMAIN data => Get(options, "temperature", JNull) = data["temperature"]
    /\ "top_p" \in DOMAIN data => Get(options, "top_p", JNull) = data["top_p"]

\* C19: the payload generate_completion of ollama-proxy.py sends has the
\* caller's model (llama2 when absent) and prompt, carries max_tokens only as
\* options.num_predict, and passes the caller's temperature and top_p through
PayloadPassesThrough ==
  variant = "ollama_proxy" =>
    \A c \in Conns :
      (task[c].pc = "awaiting" /\ task[c].cont = "generate_completion")
        => PassedThrough(task[c].req.body.obj, task[c].call.data.obj)

\* C20: in the http.server variants every request gets exactly one complete
\* response: one status line, and the headers ended once
OneCompleteResponse ==
  (last.valid /\ variant \in HttpServerVariants) =>
    /\ Len(last.resp.status) = 1
    /\ last.resp.ended = 1

====
